---- MODULE Spec2Model ----
(***************************************************************************)
(* Model of libafl/src/generators/mod.rs: the native generators            *)
(* RandBytesGenerator and RandPrintablesGenerator, and the Python bridge    *)
(* (PythonGenerator, PyObjectGenerator) of the pybind module.               *)
(*                                                                         *)
(* Two specifications share the variables:                                 *)
(*   Spec        - one native generator instance, two fuzzing States with   *)
(*                 their own RNG, called directly and through a bridge.     *)
(*   SpecForeign - several callers, each with its own bridge (native or     *)
(*                 foreign variant), stepping through the foreign call path *)
(*                 under the foreign runtime's global execution lock.       *)
(***************************************************************************)
EXTENDS Integers, Sequences, FiniteSets, TLC

\* ------------------------------------------------------------------ bounds
\* Period of the scripted RNG traces explored by Spec.
TraceLen == 2
\* Raw values an RNG trace is made of: the minimum, an index of the tab
\* character in the printable alphabet, and a byte above the ASCII range.
RawValues == {0, 63, 200}
\* Configured max_size values: the degenerate bounds 0 and 1, small bounds,
\* the scenario bounds 5, 10 and 100, the dummy ceiling and the one above it.
MaxSizes == {0, 1, 2, 3, 5, 10, 64, 65, 100}
\* The fuzzing States (each owns an RNG); caller c works on State c.
Callers == {1, 2}

\* --------------------------------------------------------------- constants
DUMMY_BYTES_MAX == 64

VARIABLES
    generator,  \* the native generator instance: [kind, max_size]
    wrapper,    \* wrapper[c]: the PythonGenerator (bridge) caller c holds
    rand,       \* rand[c]: the RNG of State c: [trace, pos]
    last,       \* the last completed call on a native path (Spec)
    dummy_out,  \* dummy_out[c]: the last generate_dummy output on State c
    pc,         \* pc[c]: position of caller c in the foreign call path
    op,         \* op[c]: the member caller c is calling
    gil,        \* holder of the foreign runtime's global lock, 0 when free
    ret,        \* ret[c]: the PyResult of the closure run under the lock
    res         \* res[c]: what the call handed back to caller c

vars == <<generator, wrapper, rand, last, dummy_out, pc, op, gil, ret, res>>

\* --------------------------------------------------------------- helpers
min(a, b) == IF a < b THEN a ELSE b

\* vec![0; size]
vec_zero(size) == [i \in 1..size |-> 0]

BytesInput_new(bytes) == [bytes |-> bytes]

Ok(input) == [tag |-> "Ok", input |-> input]
Err(e) == [tag |-> "Err", input |-> BytesInput_new(<<>>), error |-> e]
Input(input) == [tag |-> "Input", input |-> input]
NoResult == [tag |-> "None", input |-> BytesInput_new(<<>>)]

\* ------------------------------------------------------------------- Rand
\* The RNG is a scripted, periodic source: trace is the sequence of raw
\* values it yields, pos the next one, log the draws answered so far in the
\* current call (bound asked, value returned).
Rand_seeded(trace) == [trace |-> trace, pos |-> 1]

Rand_traced(r) == [trace |-> r.trace, pos |-> r.pos, log |-> <<>>]

Rand_state(r) == [trace |-> r.trace, pos |-> r.pos]

Rand_next(r) ==
    [val |-> r.trace[r.pos],
     rand |-> [r EXCEPT !.pos = (r.pos % Len(r.trace)) + 1]]

\* below(bound): a value in [0, bound); a zero bound yields a zero draw.
Rand_below(r, bound) ==
    LET n == Rand_next(r)
        v == IF bound = 0 THEN 0 ELSE n.val % bound
    IN  [val |-> v,
         rand |-> [n.rand EXCEPT !.log = Append(@, [bound |-> bound, val |-> v])]]

\* choose(items): the item at index below(len).
Rand_choose(r, items) ==
    LET d == Rand_below(r, Len(items))
    IN  [val |-> items[d.val + 1], rand |-> d.rand]

\* ----------------------------------------------------- RandBytesGenerator
RandBytesGenerator_new(max_size) == [kind |-> "RandBytes", max_size |-> max_size]

\* (0..size).map(|_| state.rand_mut().below(256) as u8).collect()
RECURSIVE random_bytes(_, _, _)
random_bytes(rnd, n, acc) ==
    IF n = 0 THEN [bytes |-> acc, rand |-> rnd]
    ELSE LET d == Rand_below(rnd, 256)
         IN  random_bytes(d.rand, n - 1, Append(acc, d.val % 256))

\* Mutant: the zero draw is not coerced to 1.
RandBytesGenerator_generate_no_coercion(self, rnd) ==
    LET d == Rand_below(rnd, self.max_size)
        c == random_bytes(d.rand, d.val, <<>>)
    IN  [result |-> Ok(BytesInput_new(c.bytes)), rand |-> c.rand]

\* Mutant: the byte loop runs over 0..=size, one draw too many.
RandBytesGenerator_generate_inclusive(self, rnd) ==
    LET d == Rand_below(rnd, self.max_size)
        size == IF d.val = 0 THEN 1 ELSE d.val
        c == random_bytes(d.rand, size + 1, <<>>)
    IN  [result |-> Ok(BytesInput_new(c.bytes)), rand |-> c.rand]

RandBytesGenerator_generate(self, rnd) ==
    LET d == Rand_below(rnd, self.max_size)
        size == IF d.val = 0 THEN 1 ELSE d.val
        c == random_bytes(d.rand, size, <<>>)
    IN  [result |-> Ok(BytesInput_new(c.bytes)), rand |-> c.rand]

\* Mutant: the fill byte of the dummy is drawn from the RNG.
RandBytesGenerator_generate_dummy_drawn(self, rnd) ==
    LET size == min(self.max_size, DUMMY_BYTES_MAX)
        d == Rand_below(rnd, 256)
    IN  [result |-> Input(BytesInput_new([i \in 1..size |-> d.val])), rand |-> d.rand]

RandBytesGenerator_generate_dummy(self, rnd) ==
    LET size == min(self.max_size, DUMMY_BYTES_MAX)
    IN  [result |-> Input(BytesInput_new(vec_zero(size))), rand |-> rnd]

\* ------------------------------------------------ RandPrintablesGenerator
RandPrintablesGenerator_new(max_size) == [kind |-> "RandPrintables", max_size |-> max_size]

\* "0123456789ABC...XYZabc...xyz \t\n!\"#$%&'()*+,-./:;<=>?@[\\]^_`{|}~".as_bytes()
printables ==
    <<48, 49, 50, 51, 52, 53, 54, 55, 56, 57>>
    \o <<65, 66, 67, 68, 69, 70, 71, 72, 73, 74, 75, 76, 77,
         78, 79, 80, 81, 82, 83, 84, 85, 86, 87, 88, 89, 90>>
    \o <<97, 98, 99, 100, 101, 102, 103, 104, 105, 106, 107, 108, 109,
         110, 111, 112, 113, 114, 115, 116, 117, 118, 119, 120, 121, 122>>
    \o <<32, 9, 10>>
    \o <<33, 34, 35, 36, 37, 38, 39, 40, 41, 42, 43, 44, 45, 46, 47>>
    \o <<58, 59, 60, 61, 62, 63, 64>>
    \o <<91, 92, 93, 94, 95, 96>>
    \o <<123, 124, 125, 126>>

\* (0..size).map(|_| *state.rand_mut().choose(printables)).collect()
RECURSIVE random_printables(_, _, _)
random_printables(rnd, n, acc) ==
    IF n = 0 THEN [bytes |-> acc, rand |-> rnd]
    ELSE LET d == Rand_choose(rnd, printables)
         IN  random_printables(d.rand, n - 1, Append(acc, d.val))

\* Mutant: the bytes are drawn below(256) instead of chosen from printables.
RandPrintablesGenerator_generate_bytes(self, rnd) ==
    LET d == Rand_below(rnd, self.max_size)
        size == IF d.val = 0 THEN 1 ELSE d.val
        c == random_bytes(d.rand, size, <<>>)
    IN  [result |-> Ok(BytesInput_new(c.bytes)), rand |-> c.rand]

RandPrintablesGenerator_generate(self, rnd) ==
    LET d == Rand_below(rnd, self.max_size)
        size == IF d.val = 0 THEN 1 ELSE d.val
        c == random_printables(d.rand, size, <<>>)
    IN  [result |-> Ok(BytesInput_new(c.bytes)), rand |-> c.rand]

\* Mutant: the dummy size is not capped by DUMMY_BYTES_MAX.
RandPrintablesGenerator_generate_dummy_uncapped(self, rnd) ==
    [result |-> Input(BytesInput_new(vec_zero(self.max_size))), rand |-> rnd]

RandPrintablesGenerator_generate_dummy(self, rnd) ==
    LET size == min(self.max_size, DUMMY_BYTES_MAX)
    IN  [result |-> Input(BytesInput_new(vec_zero(size))), rand |-> rnd]

\* ------------------------------------------------------ Generator (trait)
\* g.generate(state) / g.generate_dummy(state), resolved by the type of g.
Generator_generate(g, rnd) ==
    IF g.kind = "RandBytes" THEN RandBytesGenerator_generate(g, rnd)
    ELSE RandPrintablesGenerator_generate(g, rnd)

Generator_generate_dummy(g, rnd) ==
    IF g.kind = "RandBytes" THEN RandBytesGenerator_generate_dummy(g, rnd)
    ELSE RandPrintablesGenerator_generate_dummy(g, rnd)

\* ------------------------------------------------------- foreign objects
\* A value of the foreign runtime: its type and, for sequences, its items.
PyValue(type, items) == [type |-> type, items |-> items]

PyNone == PyValue("NoneType", <<>>)

\* Values a foreign member may return: a bytes object, a list holding an
\* integer that is no byte, and None.
PyValues == {PyValue("bytes", <<65, 66>>), PyValue("list", <<1, 300>>), PyNone}

\* A member of a foreign object: absent, or a method returning a value.
PyMissing == [defined |-> FALSE, returns |-> PyNone]

PyMethod(v) == [defined |-> TRUE, returns |-> v]

PyMembers == {PyMissing} \cup {PyMethod(v) : v \in PyValues}

\* The foreign objects handed to new_py.
PyObjects == [generate : PyMembers, generate_dummy : PyMembers]

NoObject == [generate |-> PyMissing, generate_dummy |-> PyMissing]

NoGenerator == [kind |-> "None", max_size |-> 0]

\* PyResult values held in ret.
PyOk(v) == [tag |-> "Ok", val |-> v]

PyErr(e) == [tag |-> "Err", val |-> PyValue(e, <<>>)]

NoRet == [tag |-> "None", val |-> PyNone]

\* obj.call_method1(py, name, (state,)): AttributeError when obj has no such
\* member, else the value the method returns.
call_method1(obj, name) ==
    LET m == IF name = "generate" THEN obj.generate ELSE obj.generate_dummy
    IN  IF m.defined THEN PyOk(m.returns) ELSE PyErr("AttributeError")

\* value.extract::<Vec<u8>>(py): a sequence whose items all fit a byte.
extract(v) ==
    IF v.type \in {"bytes", "list"} /\ \A i \in 1..Len(v.items) : v.items[i] \in 0..255
    THEN PyOk(PyValue("Vec<u8>", v.items))
    ELSE PyErr("TypeError")

\* -------------------------------------------------------- PythonGenerator
new_rand_bytes(py_gen) == [tag |-> "RandBytes", py_gen |-> py_gen, inner |-> NoObject]

new_rand_printables(py_gen) == [tag |-> "RandPrintables", py_gen |-> py_gen, inner |-> NoObject]

\* PyObjectGenerator::new(obj) wrapped as the Python variant.
new_py(obj) == [tag |-> "Python", py_gen |-> NoGenerator, inner |-> obj]

\* PythonRandBytesGenerator::as_generator / PythonRandPrintablesGenerator::as_generator
as_generator(slf) ==
    IF slf.kind = "RandBytes" THEN new_rand_bytes(slf) ELSE new_rand_printables(slf)

unwrap_py(self) ==
    IF self.tag = "Python" THEN {self.inner} ELSE {}

\* The native arms of unwrap_me_body! / unwrap_me_mut_body!: the generator
\* the handle refers to.
unwrap_me_body(w) == w.py_gen

\* Mutant: the bridge's generate forwards to generate_dummy.
PythonGenerator_generate_as_dummy(self, rnd) ==
    LET r == Generator_generate_dummy(unwrap_me_body(self), rnd)
    IN  [result |-> Ok(r.result.input), rand |-> r.rand]

\* unwrap_me_mut!(self.wrapper, g, { g.generate(state) }), native variants.
PythonGenerator_generate(self, rnd) ==
    Generator_generate(unwrap_me_body(self), rnd)

\* unwrap_me!(self.wrapper, g, { g.generate_dummy(state) }), native variants.
PythonGenerator_generate_dummy(self, rnd) ==
    Generator_generate_dummy(unwrap_me_body(self), rnd)

\* ------------------------------------------------------------ Spec: state
\* The period of State c's RNG trace: State 2's is one shorter, so that the
\* two States never run the same RNG.
TracePeriod(c) == IF c = 1 THEN TraceLen ELSE TraceLen - 1

Traces(c) == [1..TracePeriod(c) -> RawValues]

Kinds == {"RandBytes", "RandPrintables"}

Generators == {RandBytesGenerator_new(m) : m \in MaxSizes}
              \cup {RandPrintablesGenerator_new(m) : m \in MaxSizes}

NoCall == [op |-> "none", via |-> "none", state |-> 0,
           before |-> Rand_seeded(<<0>>), out |-> NoResult, log |-> <<>>]

IdleCallers ==
    /\ pc = [c \in Callers |-> "idle"]
    /\ op = [c \in Callers |-> "none"]
    /\ gil = 0
    /\ ret = [c \in Callers |-> NoRet]
    /\ res = [c \in Callers |-> NoResult]

Init ==
    /\ generator \in Generators
    /\ wrapper = [c \in Callers |-> as_generator(generator)]
    /\ rand \in {r \in [Callers -> UNION {{Rand_seeded(t) : t \in Traces(c)} : c \in Callers}] :
                    \A c \in Callers : r[c].trace \in Traces(c)}
    /\ last = NoCall
    /\ dummy_out = [c \in Callers |-> NoResult]
    /\ IdleCallers

\* A call that completes on a native path: record it and store the RNG back.
Completed(c, name, via, r) ==
    /\ last' = [op |-> name, via |-> via, state |-> c, before |-> rand[c],
                out |-> r.result, log |-> r.rand.log]
    /\ rand' = [rand EXCEPT ![c] = Rand_state(r.rand)]
    /\ dummy_out' = IF name = "generate_dummy"
                    THEN [dummy_out EXCEPT ![c] = r.result]
                    ELSE dummy_out

\* generator.generate(state_c)
DirectGenerate(c) ==
    /\ Completed(c, "generate", "direct",
                 Generator_generate(generator, Rand_traced(rand[c])))
    /\ UNCHANGED <<generator, wrapper, pc, op, gil, ret, res>>

\* generator.generate_dummy(state_c)
DirectGenerateDummy(c) ==
    /\ Completed(c, "generate_dummy", "direct",
                 Generator_generate_dummy(generator, Rand_traced(rand[c])))
    /\ UNCHANGED <<generator, wrapper, pc, op, gil, ret, res>>

\* wrapper[c].generate(state_c), the bridge in a native variant
BridgeGenerate(c) ==
    /\ wrapper[c].tag # "Python"
    /\ Completed(c, "generate", "bridge",
                 PythonGenerator_generate(wrapper[c], Rand_traced(rand[c])))
    /\ UNCHANGED <<generator, wrapper, pc, op, gil, ret, res>>

\* wrapper[c].generate_dummy(state_c), the bridge in a native variant
BridgeGenerateDummy(c) ==
    /\ wrapper[c].tag # "Python"
    /\ Completed(c, "generate_dummy", "bridge",
                 PythonGenerator_generate_dummy(wrapper[c], Rand_traced(rand[c])))
    /\ UNCHANGED <<generator, wrapper, pc, op, gil, ret, res>>

Next ==
    \E c \in Callers :
        \/ DirectGenerate(c)
        \/ DirectGenerateDummy(c)
        \/ BridgeGenerate(c)
        \/ BridgeGenerateDummy(c)

Spec == Init /\ [][Next]_vars

\* ----------------------------------------------------- SpecForeign: state
\* max_size values of the native instance in SpecForeign.
ForeignSpecMaxSizes == {0, 3}

\* The trace every State's RNG runs in SpecForeign.
ForeignSpecTrace == <<200, 0, 63>>

ForeignInit ==
    /\ generator \in {g \in Generators : g.max_size \in ForeignSpecMaxSizes}
    /\ wrapper \in [Callers -> {as_generator(generator)} \cup {new_py(o) : o \in PyObjects}]
    /\ rand = [c \in Callers |-> Rand_seeded(ForeignSpecTrace)]
    /\ last = NoCall
    /\ dummy_out = [c \in Callers |-> NoResult]
    /\ IdleCallers

\* Caller c calls member name of its bridge, which holds a native variant:
\* the call runs to completion on the native generator.
NativeCall(c, name) ==
    /\ pc[c] = "idle"
    /\ wrapper[c].tag # "Python"
    /\ LET r == IF name = "generate"
                THEN PythonGenerator_generate(wrapper[c], Rand_traced(rand[c]))
                ELSE PythonGenerator_generate_dummy(wrapper[c], Rand_traced(rand[c]))
       IN  /\ res' = [res EXCEPT ![c] = r.result]
           /\ rand' = [rand EXCEPT ![c] = Rand_state(r.rand)]
    /\ op' = [op EXCEPT ![c] = name]
    /\ pc' = [pc EXCEPT ![c] = "returned"]
    /\ UNCHANGED <<generator, wrapper, last, dummy_out, gil, ret>>

\* Caller c calls member name of its bridge, which holds the Python variant:
\* PyObjectGenerator::generate / generate_dummy is entered.
ForeignCall(c, name) ==
    /\ pc[c] = "idle"
    /\ wrapper[c].tag = "Python"
    /\ op' = [op EXCEPT ![c] = name]
    /\ ret' = [ret EXCEPT ![c] = NoRet]
    /\ res' = [res EXCEPT ![c] = NoResult]
    /\ pc' = [pc EXCEPT ![c] = "with_gil"]
    /\ UNCHANGED <<generator, wrapper, rand, last, dummy_out, gil>>

\* Mutant: the closure is entered without waiting for the lock.
WithGilEnter_unguarded(c) ==
    /\ pc[c] = "with_gil"
    /\ gil' = c
    /\ pc' = [pc EXCEPT ![c] = "call_method1"]
    /\ UNCHANGED <<generator, wrapper, rand, last, dummy_out, op, ret, res>>

\* Python::with_gil(|py| ...): the lock is taken when it is free.
WithGilEnter(c) ==
    /\ pc[c] = "with_gil"
    /\ gil = 0
    /\ gil' = c
    /\ pc' = [pc EXCEPT ![c] = "call_method1"]
    /\ UNCHANGED <<generator, wrapper, rand, last, dummy_out, op, ret, res>>

\* Mutant: generate_dummy looks up the member "generate" too.
CallMethod1_generate_only(c) ==
    /\ pc[c] = "call_method1"
    /\ LET r == call_method1(wrapper[c].inner, "generate")
       IN  /\ ret' = [ret EXCEPT ![c] = r]
           /\ pc' = [pc EXCEPT ![c] = IF r.tag = "Ok" THEN "extract" ELSE "with_gil_exit"]
    /\ UNCHANGED <<generator, wrapper, rand, last, dummy_out, op, gil, res>>

\* self.inner.call_method1(py, "generate" | "generate_dummy", (state,))?
CallMethod1(c) ==
    /\ pc[c] = "call_method1"
    /\ LET r == call_method1(wrapper[c].inner, op[c])
       IN  /\ ret' = [ret EXCEPT ![c] = r]
           /\ pc' = [pc EXCEPT ![c] = IF r.tag = "Ok" THEN "extract" ELSE "with_gil_exit"]
    /\ UNCHANGED <<generator, wrapper, rand, last, dummy_out, op, gil, res>>

\* .extract(py)
Extract(c) ==
    /\ pc[c] = "extract"
    /\ ret' = [ret EXCEPT ![c] = extract(ret[c].val)]
    /\ pc' = [pc EXCEPT ![c] = "with_gil_exit"]
    /\ UNCHANGED <<generator, wrapper, rand, last, dummy_out, op, gil, res>>

\* Mutant: the lock is given back on the success path only.
WithGilExit_on_success(c) ==
    /\ pc[c] = "with_gil_exit"
    /\ gil' = IF ret[c].tag = "Ok" THEN 0 ELSE gil
    /\ pc' = [pc EXCEPT ![c] = "unwrap"]
    /\ UNCHANGED <<generator, wrapper, rand, last, dummy_out, op, ret, res>>

\* The closure returns its PyResult and with_gil gives the lock back.
WithGilExit(c) ==
    /\ pc[c] = "with_gil_exit"
    /\ gil' = 0
    /\ pc' = [pc EXCEPT ![c] = "unwrap"]
    /\ UNCHANGED <<generator, wrapper, rand, last, dummy_out, op, ret, res>>

\* Mutant: a failed PyResult is handed back as an Err instead of aborting.
Unwrap_propagates(c) ==
    /\ pc[c] = "unwrap"
    /\ res' = [res EXCEPT ![c] =
                  IF ret[c].tag # "Ok" THEN Err(ret[c].val.type)
                  ELSE IF op[c] = "generate"
                       THEN Ok(BytesInput_new(ret[c].val.items))
                       ELSE Input(BytesInput_new(ret[c].val.items))]
    /\ pc' = [pc EXCEPT ![c] = "returned"]
    /\ UNCHANGED <<generator, wrapper, rand, last, dummy_out, op, gil, ret>>

\* .unwrap(), then Ok(BytesInput::new(bytes)) / BytesInput::new(bytes)
Unwrap(c) ==
    /\ pc[c] = "unwrap"
    /\ IF ret[c].tag = "Ok"
       THEN /\ res' = [res EXCEPT ![c] =
                          IF op[c] = "generate"
                          THEN Ok(BytesInput_new(ret[c].val.items))
                          ELSE Input(BytesInput_new(ret[c].val.items))]
            /\ pc' = [pc EXCEPT ![c] = "returned"]
       ELSE /\ res' = res
            /\ pc' = [pc EXCEPT ![c] = "panicked"]
    /\ UNCHANGED <<generator, wrapper, rand, last, dummy_out, op, gil, ret>>

\* The caller takes the returned value and is ready for its next call.
Return(c) ==
    /\ pc[c] = "returned"
    /\ pc' = [pc EXCEPT ![c] = "idle"]
    /\ UNCHANGED <<generator, wrapper, rand, last, dummy_out, op, gil, ret, res>>

Members == {"generate", "generate_dummy"}

ForeignNext ==
    \E c \in Callers :
        \/ \E name \in Members : NativeCall(c, name)
        \/ \E name \in Members : ForeignCall(c, name)
        \/ WithGilEnter(c)
        \/ CallMethod1(c)
        \/ Extract(c)
        \/ WithGilExit(c)
        \/ Unwrap(c)
        \/ Return(c)

SpecForeign == ForeignInit /\ [][ForeignNext]_vars

\* ================================================================ claims
\* Shorthands for the last completed call of Spec.
LastBytes == last.out.input.bytes

LastIs(name) == last.op = name

\* The characters the alphabet is described by: digits, upper and lower case
\* letters, space, tab, newline, and the ASCII punctuation.
Digits == 48..57
UpperCase == 65..90
LowerCase == 97..122
Whitespace == {32, 9, 10}
Punctuation == (33..47) \cup (58..64) \cup (91..96) \cup (123..126)
PrintableAlphabet == Digits \cup UpperCase \cup LowerCase \cup Whitespace \cup Punctuation

\* The alphabet choose picks from.
ChosenFrom == {printables[i] : i \in 1..Len(printables)}

\* C1: generate of either native generator returns Ok with a sequence of
\* length L, where L is in [1, max_size - 1] when max_size > 1 and L = 1
\* when max_size is 1 or 0; the output is never empty.
C1_GenerateLength ==
    LastIs("generate") =>
        /\ last.out.tag = "Ok"
        /\ Len(LastBytes) >= 1
        /\ generator.max_size > 1 =>
               /\ Len(LastBytes) \in 1..(generator.max_size - 1)
               /\ Len(LastBytes) < generator.max_size
        /\ generator.max_size = 1 => Len(LastBytes) = 1
        /\ generator.max_size = 0 => Len(LastBytes) = 1

\* C1 witness: a zero draw on max_size = 0 came out as one byte.
C1_Witness ==
    /\ LastIs("generate")
    /\ generator.max_size = 0
    /\ Len(last.log) > 0 /\ last.log[1] = [bound |-> 0, val |-> 0]
    /\ Len(LastBytes) = 1

\* C2: generate_dummy of either native generator returns exactly
\* min(max_size, 64) bytes, all of them 0, for every max_size (0 and values
\* above 64 included); the printables generator's dummy bytes are zero bytes,
\* no members of the printable alphabet.
C2_DummyZeros ==
    LastIs("generate_dummy") =>
        /\ last.out.tag = "Input"
        /\ Len(LastBytes) = (IF generator.max_size <= 64 THEN generator.max_size ELSE 64)
        /\ \A i \in 1..Len(LastBytes) : LastBytes[i] = 0
        /\ generator.kind = "RandPrintables" =>
               \A i \in 1..Len(LastBytes) : LastBytes[i] \notin ChosenFrom

\* C2 witness: the printables generator with max_size = 100 gave 64 bytes.
C2_Witness ==
    /\ LastIs("generate_dummy")
    /\ generator = RandPrintablesGenerator_new(100)
    /\ Len(LastBytes) = 64

\* C3: generate_dummy of the native generators leaves the RNG of the State
\* as it found it, and the dummy outputs obtained on the two States (whose
\* RNG seeds differ, the generator's max_size being the same) are equal,
\* whatever generate calls happen in between.
C3_DummyIgnoresRand ==
    /\ LastIs("generate_dummy") => rand[last.state] = last.before
    /\ \A c, d \in Callers :
           (dummy_out[c] # NoResult /\ dummy_out[d] # NoResult) => dummy_out[c] = dummy_out[d]

\* C3 witness: both States, differently seeded, have produced a dummy, the
\* last call being a generate_dummy on State 1 after generate calls advanced
\* its RNG.
C3_Witness ==
    /\ LastIs("generate_dummy") /\ last.state = 1
    /\ rand[1].trace # rand[2].trace
    /\ rand[1].pos # 1
    /\ dummy_out[1] # NoResult /\ dummy_out[2] # NoResult
    /\ Len(dummy_out[1].input.bytes) > 0

\* C4 (as claimed): every byte RandPrintablesGenerator.generate produces is a
\* member of the alphabet choose picks from, and that alphabet has 95
\* characters.
C4_Original ==
    (LastIs("generate") /\ generator.kind = "RandPrintables") =>
        /\ \A i \in 1..Len(LastBytes) : LastBytes[i] \in ChosenFrom
        /\ Cardinality(ChosenFrom) = 95

\* C4 (amended): every byte RandPrintablesGenerator.generate produces is a
\* member of the alphabet choose picks from, which is the 97 characters made
\* of the digits, the upper and lower case letters, space, tab, newline and
\* the 32 ASCII punctuation characters.
C4_PrintableAlphabet ==
    (LastIs("generate") /\ generator.kind = "RandPrintables") =>
        /\ \A i \in 1..Len(LastBytes) : LastBytes[i] \in PrintableAlphabet
        /\ ChosenFrom = PrintableAlphabet
        /\ Cardinality(PrintableAlphabet) = 97

\* C4 witness: the printables generator produced two bytes, one of them the
\* tab character.
C4_Witness ==
    /\ LastIs("generate") /\ generator.kind = "RandPrintables"
    /\ Len(LastBytes) >= 2
    /\ \E i \in 1..Len(LastBytes) : LastBytes[i] = 9

C10_DrawOrder ==
    (LastIs("generate") /\ generator.kind = "RandBytes") =>
        /\ Len(last.log) = 1 + Len(LastBytes)
        /\ last.log[1].bound = generator.max_size
        /\ Len(LastBytes) = (IF last.log[1].val = 0 THEN 1 ELSE last.log[1].val)
        /\ \A i \in 1..Len(LastBytes) :
               /\ last.log[i + 1].bound = 256
               /\ LastBytes[i] = last.log[i + 1].val
        /\ (generator.max_size = 10 /\ last.before = Rand_seeded(<<0, 200>>)) =>
               LastBytes = <<200>>

\* C10 witness: max_size = 10, the RNG yields 0 then 200, the output is [200].
C10_Witness ==
    /\ LastIs("generate") /\ generator = RandBytesGenerator_new(10)
    /\ last.before = Rand_seeded(<<0, 200>>)
    /\ last.log = <<[bound |-> 10, val |-> 0], [bound |-> 256, val |-> 200]>>
    /\ LastBytes = <<200>>

\* ------------------------------------------------------ SpecForeign claims
\* Caller c is inside the foreign invocation: calling the member or
\* extracting its result.
InForeign(c) == pc[c] \in {"call_method1", "extract"}

\* The foreign member caller c's call names, and whether a call of it yields
\* bytes.
Member(c) ==
    IF op[c] = "generate" THEN wrapper[c].inner.generate ELSE wrapper[c].inner.generate_dummy

YieldsBytes(m) ==
    /\ m.defined
    /\ m.returns.type \in {"bytes", "list"}
    /\ \A i \in 1..Len(m.returns.items) : m.returns.items[i] \in 0..255

\* C6: a foreign member is invoked, and its result extracted, only by the
\* caller holding the global execution lock; at most one foreign invocation
\* is in progress at any time.
C6_ForeignUnderLock ==
    /\ \A c \in Callers : InForeign(c) => (gil = c /\ wrapper[c].tag = "Python")
    /\ Cardinality({c \in Callers : InForeign(c)}) <= 1

\* C6 witness: one caller is extracting the result of its foreign call
\* while the other, on another foreign bridge, waits for the lock.
C6_Witness ==
    \E c, d \in Callers :
        /\ c # d
        /\ pc[c] = "extract" /\ gil = c
        /\ pc[d] = "with_gil" /\ wrapper[d].tag = "Python"
        /\ wrapper[c] # wrapper[d]

C8_Original ==
    \A c \in Callers :
        op[c] = "generate_dummy" =>
            /\ pc[c] # "panicked"
            /\ pc[c] \in {"returned", "idle"} => res[c].tag = "Input"

\* C8 (amended): generate_dummy never returns an error value. On a native
\* generator or a bridge in a native variant it always returns an Input. On
\* a Foreign-variant bridge it returns the extracted bytes as an Input when
\* the foreign object has a generate_dummy member whose value extracts as a
\* byte sequence, and aborts the caller otherwise.
C8_DummyFailure ==
    \A c \in Callers :
        op[c] = "generate_dummy" =>
            /\ res[c].tag \in {"None", "Input"}
            /\ wrapper[c].tag # "Python" =>
                   /\ pc[c] \in {"returned", "idle"}
                   /\ res[c].tag = "Input"
            /\ wrapper[c].tag = "Python" =>
                   /\ pc[c] = "panicked" => ~YieldsBytes(Member(c))
                   /\ pc[c] \in {"returned", "idle"} =>
                          /\ YieldsBytes(Member(c))
                          /\ res[c] = Input(BytesInput_new(Member(c).returns.items))

\* C8 witness: a generate_dummy on a foreign bridge aborted because the
\* returned value is no byte sequence, while the other caller's
\* generate_dummy on a foreign bridge returned an Input.
C8_Witness ==
    \E c, d \in Callers :
        /\ op[c] = "generate_dummy" /\ pc[c] = "panicked" /\ ret[c] = PyErr("TypeError")
        /\ op[d] = "generate_dummy" /\ pc[d] = "returned"
        /\ wrapper[d].tag = "Python" /\ res[d].tag = "Input"

\* C9: no call of generate yields Err. On a Foreign-variant bridge a failed
\* call path (member missing, value not extractable) aborts the caller and a
\* successful one returns Ok of the extracted bytes; a native generate
\* returns Ok.
C9_GenerateNeverErr ==
    \A c \in Callers :
        op[c] = "generate" =>
            /\ res[c].tag \in {"None", "Ok"}
            /\ wrapper[c].tag # "Python" => res[c].tag = "Ok"
            /\ wrapper[c].tag = "Python" =>
                   /\ (pc[c] = "unwrap" /\ ret[c].tag = "Err") => ~YieldsBytes(Member(c))
                   /\ (pc[c] \in {"returned", "idle"}) =>
                          /\ YieldsBytes(Member(c))
                          /\ res[c] = Ok(BytesInput_new(Member(c).returns.items))
                   /\ (pc[c] = "panicked") => (ret[c].tag = "Err" /\ res[c].tag = "None")
                   /\ (pc[c] \in {"unwrap", "panicked", "returned", "idle"} /\ ~YieldsBytes(Member(c)))
                          => (ret[c].tag = "Err" /\ pc[c] \in {"unwrap", "panicked"})

\* C9 witness: a foreign generate aborted on a missing member and a native
\* generate returned Ok.
C9_Witness ==
    \E c, d \in Callers :
        /\ op[c] = "generate" /\ pc[c] = "panicked" /\ ret[c] = PyErr("AttributeError")
        /\ op[d] = "generate" /\ wrapper[d].tag # "Python" /\ res[d].tag = "Ok"

====
